---- MODULE Spec2Model ----
(***************************************************************************)
(* keiba_app: the sample-data generator (sample_data.py) and the           *)
(* dashboard's load / filter / statistics path (dashboard.py).             *)
(*                                                                         *)
(* Conventions of the model                                                *)
(*  - a DataFrame is a sequence of rows, a row a record keyed by column;   *)
(*    the Japanese column names and values of the source are romanised     *)
(*    (horse_name, race_date, venue, finish_position, prize, ...);         *)
(*  - a Python float with one decimal (weight, odds, the rates) is the     *)
(*    integer number of tenths; mean finish is in hundredths;              *)
(*  - a Python str (a name, a formatted date, a time, a CSV cell) is a     *)
(*    text: a sequence of symbols, each one character, a name being one    *)
(*    symbol;                                                              *)
(*  - a calendar date is the number of days since 1970-01-01;              *)
(*  - the random source is sampled: a draw from a range gives its upper    *)
(*    end, and both ends at the call sites a specification varies.         *)
(***************************************************************************)
EXTENDS Integers, Sequences, FiniteSets, TLC

VARIABLES
    all_data,        \* generate_sample_horse_data: the table it returned
    file,            \* horse_performance_data.csv: NoFile, or Some(its rows of cells)
    cache,           \* st.cache_data memo of load_data: NoCache, or Some(the table)
    load_path,       \* branch the last load_data took
    op,              \* the operation that ran last
    df,              \* main: the loaded table / calculate_horse_stats: its argument
    selected_horses, \* main: value of the horse multiselect
    date_range,      \* main: value of the date_input (a tuple of dates)
    race_courses,    \* main: value of the venue multiselect
    filtered_df,     \* main: the filtered table
    outcome,         \* main: how the render pass ended
    stats_calls,     \* main: the calculate_horse_stats calls, [horse, stats]
    horse_name,      \* calculate_horse_stats: None, or Some(its horse argument)
    stats            \* calculate_horse_stats: its return value, None or Some(dict)

vars == <<all_data, file, cache, load_path, op, df, selected_horses, date_range,
          race_courses, filtered_df, outcome, stats_calls, horse_name, stats>>

(***************************************************************************)
(* Bounds and sampled inputs                                               *)
(***************************************************************************)
\* races generated per horse: MinRaces..MaxRaces (10..20 in the source)
MinRaces == 1
MaxRaces == 2
\* rows of a table handed to calculate_horse_stats on its own
MaxRows == 3

\* the strengths random.random() is sampled at: around both tier thresholds
StrengthSamples == {0, 60, 61, 80, 81, 99}
\* what each specification samples of the random source: the call sites it
\* varies, and the race counts random.randint(10, 20) is scaled down to
GenDraws ==
    [varied |-> {"horse_strength", "finish_position", "num_horses"},
     min_races |-> MinRaces, max_races |-> MaxRaces]
MainDraws ==
    [varied |-> {"days_ago", "course"}, min_races |-> MaxRaces, max_races |-> MaxRaces]
IODraws ==
    [varied |-> {"course"}, min_races |-> MinRaces, max_races |-> MinRaces]
RoundTripDraws ==
    [varied |-> {"days_ago", "odds"}, min_races |-> MinRaces, max_races |-> MaxRaces]

\* an optional value is a sequence of at most one element
None == <<>>
Some(x) == <<x>>
Value(o) == o[1]
\* the backing file is absent / load_data has not been memoised
NoFile == None
NoCache == None

(***************************************************************************)
(* Text helpers: what str(), f-strings, strftime and the CSV reader do     *)
(***************************************************************************)
DigitChars == <<"0", "1", "2", "3", "4", "5", "6", "7", "8", "9">>

DigitVal(c) == CHOOSE k \in 0..9 : DigitChars[k + 1] = c

IsDigit(c) == \E k \in 1..10 : DigitChars[k] = c

RECURSIVE IntText(_)
\* str(n) for n >= 0
IntText(n) == IF n < 10 THEN <<DigitChars[n + 1]>>
              ELSE IntText(n \div 10) \o <<DigitChars[(n % 10) + 1]>>

RECURSIVE Pad(_, _)
\* zero padding of a format spec such as :02d
Pad(t, width) == IF Len(t) >= width THEN t ELSE Pad(<<"0">> \o t, width)

RECURSIVE ParseInt(_)
\* int(text) of a text of digits
ParseInt(t) == IF Len(t) = 0 THEN 0
               ELSE ParseInt(SubSeq(t, 1, Len(t) - 1)) * 10 + DigitVal(t[Len(t)])

IsIntText(t) == Len(t) > 0 /\ \A k \in 1..Len(t) : IsDigit(t[k])

\* repr of a float that has one decimal, given in tenths: 520 -> 52.0
FloatText(tenths) == IntText(tenths \div 10) \o <<".">> \o IntText(tenths % 10)

\* position of the only "." of a text, 0 when it has none or several
DotAt(t) == LET dots == {k \in 1..Len(t) : t[k] = "."}
            IN IF Cardinality(dots) = 1 THEN CHOOSE k \in dots : TRUE ELSE 0

IsFloatText(t) == /\ DotAt(t) > 1
                  /\ DotAt(t) = Len(t) - 1
                  /\ IsIntText(SubSeq(t, 1, DotAt(t) - 1))
                  /\ IsDigit(t[Len(t)])

\* float(text) in tenths
ParseFloat(t) == ParseInt(SubSeq(t, 1, DotAt(t) - 1)) * 10 + DigitVal(t[Len(t)])

(***************************************************************************)
(* Calendar: datetime arithmetic, strftime("%Y-%m-%d"), pd.to_datetime     *)
(***************************************************************************)
\* (year, month, day) of a day number (proleptic Gregorian calendar)
CivilFromDays(d) ==
    LET z == d + 719468
        era == z \div 146097
        doe == z - era * 146097
        yoe == (doe - doe \div 1460 + doe \div 36524 - doe \div 146096) \div 365
        doy == doe - (365 * yoe + yoe \div 4 - yoe \div 100)
        mp == (5 * doy + 2) \div 153
        m == IF mp < 10 THEN mp + 3 ELSE mp - 9
    IN [year |-> yoe + era * 400 + (IF m <= 2 THEN 1 ELSE 0),
        month |-> m,
        day |-> doy - (153 * mp + 2) \div 5 + 1]

\* day number of (year, month, day)
DaysFromCivil(y, m, d) ==
    LET yy == IF m <= 2 THEN y - 1 ELSE y
        era == yy \div 400
        yoe == yy - era * 400
        doy == (153 * (IF m > 2 THEN m - 3 ELSE m + 9) + 2) \div 5 + d - 1
        doe == yoe * 365 + yoe \div 4 - yoe \div 100 + doy
    IN era * 146097 + doe - 719468

\* race_date.strftime("%Y-%m-%d")
strftime(d) ==
    LET c == CivilFromDays(d)
    IN Pad(IntText(c.year), 4) \o <<"-">> \o Pad(IntText(c.month), 2)
       \o <<"-">> \o Pad(IntText(c.day), 2)

\* pd.to_datetime of one YYYY-MM-DD text; .dt.date of the result is the same day
ParseDate(t) ==
    DaysFromCivil(ParseInt(SubSeq(t, 1, 4)), ParseInt(SubSeq(t, 6, 7)),
                  ParseInt(SubSeq(t, 9, 10)))

\* df["race_date"] = pd.to_datetime(df["race_date"])
to_datetime(table) ==
    [i \in 1..Len(table) |->
        [table[i] EXCEPT !.race_date = ParseDate(table[i].race_date)]]

(***************************************************************************)
(* sample_data.py: generate_sample_horse_data                              *)
(***************************************************************************)
\* the first two names of the 20-name roster
horse_names == <<"DeepImpact", "Orfevre">>

race_courses_list ==
    <<"Tokyo", "Nakayama", "Kyoto", "Hanshin", "Chukyo", "Niigata", "Fukushima", "Kokura">>

distances == <<1200, 1400, 1600, 1800, 2000, 2200, 2400, 2500, 3000, 3200>>

track_conditions == <<"good", "yielding", "soft", "heavy">>

weather_conditions == <<"sunny", "cloudy", "rain", "light_rain">>

jockeys == <<"TakeYutaka", "FukunagaYuichi", "KawadaYuga", "Lemaire", "Demuro",
             "TosakiKeita", "IwataYasunari", "IkezoeKenichi">>

\* datetime.now(), as a day: 2026-11-03
now == 20760

\* random.randint(lo, hi) / random.uniform(lo, hi) at call site `site`
RandInt(site, lo, hi, varied) == IF site \in varied THEN {lo, hi} ELSE {hi}

\* random.choice(list) / np.random.choice(list, p), every weight being positive
Choice(site, list, varied) ==
    IF site \in varied THEN {list[1], list[Len(list)]} ELSE {list[Len(list)]}

\* random.random(), in hundredths
Random(site, varied) == IF site \in varied THEN StrengthSamples ELSE {99}

\* lines 61-71: the finish positions a strength can draw
FinishPositions(horse_strength, varied) ==
    IF horse_strength > 80
    THEN Choice("finish_position", <<1, 2, 3, 4, 5>>, varied)
    ELSE IF horse_strength > 60
         THEN Choice("finish_position", <<1, 2, 3, 4, 5, 6, 7, 8>>, varied)
         ELSE RandInt("finish_position", 5, 18, varied)

Max(a, b) == IF a >= b THEN a ELSE b

\* mutant: the field size drawn without regard to the finish position
NumHorsesFrom8(finish_position, varied) == RandInt("num_horses", 8, 18, varied)

\* line 74: the field sizes drawn for a finish position
NumHorses(finish_position, varied) ==
    RandInt("num_horses", Max(8, finish_position), 18, varied)

\* mutant: a prize drawn whatever the finish position
PrizesForAll(finish_position, varied) == RandInt("prize", 0, 20000, varied)

\* line 107: the prizes drawn for a finish position
Prizes(finish_position, varied) ==
    IF finish_position <= 5 THEN RandInt("prize", 0, 20000, varied) ELSE {0}

\* lines 78-79: base_time in milliseconds, and the M:SS.d text
RaceTime(base_time, tenth) ==
    IntText(base_time \div 60000) \o <<":">>
    \o Pad(IntText((base_time % 60000) \div 1000), 2) \o <<".">> \o IntText(tenth)

\* lines 53-110: the rows one iteration of the race loop can append
RaceData(name, varied) ==
    UNION { UNION { UNION {
      { [horse_name |-> <<name>>,
         race_date |-> strftime(now - days_ago),
         venue |-> <<course>>,
         distance_m |-> distance,
         finish_position |-> finish_position,
         field_size |-> num_horses,
         time |-> RaceTime(distance * 65 + noise * 1000, tenth),
         track_condition |-> <<track>>,
         weather |-> <<weather>>,
         jockey |-> <<jockey>>,
         weight_carried_kg |-> weight,
         popularity_rank |-> popularity,
         odds |-> odds,
         prize |-> prize] :
          days_ago \in RandInt("days_ago", 0, 730, varied),
          course \in Choice("course", race_courses_list, varied),
          distance \in Choice("distance", distances, varied),
          noise \in RandInt("base_time", -5, 5, varied),
          tenth \in RandInt("tenth", 0, 9, varied),
          track \in Choice("track", track_conditions, varied),
          weather \in Choice("weather", weather_conditions, varied),
          jockey \in Choice("jockey", jockeys, varied),
          weight \in RandInt("weight", 520, 580, varied),
          popularity \in RandInt("popularity", 1, num_horses, varied),
          odds \in RandInt("odds", 12, 500, varied),
          prize \in Prizes(finish_position, varied) } :
        num_horses \in NumHorses(finish_position, varied) } :
      finish_position \in FinishPositions(horse_strength, varied) } :
    horse_strength \in Random("horse_strength", varied) }

RECURSIVE SeqsOfLen(_, _)
\* the sequences of n elements of S
SeqsOfLen(S, n) ==
    IF n = 0 THEN {<<>>}
    ELSE {Append(s, x) : s \in SeqsOfLen(S, n - 1), x \in S}

\* lines 50, 53: the rows the race loop appends for one horse
HorseRaces(name, draws) ==
    UNION {SeqsOfLen(RaceData(name, draws.varied), num_races) :
             num_races \in draws.min_races..draws.max_races}

RECURSIVE AllData(_, _)
\* lines 46-48: all_data after the first k horses of the roster
AllData(k, draws) ==
    IF k = 0 THEN {<<>>}
    ELSE {a \o r : a \in AllData(k - 1, draws),
                   r \in HorseRaces(horse_names[k], draws)}

\* the tables generate_sample_horse_data can return
generate_sample_horse_data(draws) == AllData(Len(horse_names), draws)

(***************************************************************************)
(* pandas: DataFrame.to_csv and pd.read_csv                                *)
(***************************************************************************)
\* lines 93-108: the columns of a generated table, in order
Columns == <<"horse_name", "race_date", "venue", "distance_m", "finish_position",
             "field_size", "time", "track_condition", "weather", "jockey",
             "weight_carried_kg", "popularity_rank", "odds", "prize">>

\* the Python type of each generated column
ColumnType ==
    [c \in {Columns[j] : j \in 1..Len(Columns)} |->
        IF c \in {"distance_m", "finish_position", "field_size", "popularity_rank", "prize"}
        THEN "int"
        ELSE IF c \in {"weight_carried_kg", "odds"} THEN "float" ELSE "str"]

\* the cell to_csv writes for a value
FormatCell(type, v) ==
    IF type = "int" THEN IntText(v) ELSE IF type = "float" THEN FloatText(v) ELSE v

\* DataFrame.to_csv(path, index=index): a header row, then one row of cells per record
WriteCsv(table, index) ==
    <<(IF index THEN <<"">> ELSE <<>>) \o Columns>>
    \o [i \in 1..Len(table) |->
          (IF index THEN <<IntText(i - 1)>> ELSE <<>>)
          \o [j \in 1..Len(Columns) |->
                FormatCell(ColumnType[Columns[j]], table[i][Columns[j]])]]

\* mutant: the index column written too (index=False forgotten)
to_csv_with_index(table) == WriteCsv(table, TRUE)

\* df.to_csv(csv_path, index=False, encoding="utf-8")
to_csv(table) == WriteCsv(table, FALSE)

\* the dtype read_csv infers for a column from its cells
InferType(cells) ==
    IF \A t \in cells : IsIntText(t) THEN "int"
    ELSE IF \A t \in cells : IsIntText(t) \/ IsFloatText(t) THEN "float" ELSE "str"

\* the value read_csv gives a cell of a column of that dtype
ParseCell(type, t) ==
    IF type = "int" THEN ParseInt(t)
    ELSE IF type = "float"
         THEN (IF IsIntText(t) THEN ParseInt(t) * 10 ELSE ParseFloat(t))
         ELSE t

\* pd.read_csv(csv_path, encoding="utf-8") of a file that has a header row
read_csv(rows) ==
    LET header == rows[1]
        body == Tail(rows)
        Name(j) == IF header[j] = "" THEN "Unnamed: 0" ELSE header[j]
        At(c) == CHOOSE j \in 1..Len(header) : Name(j) = c
        Type(j) == InferType({body[i][j] : i \in 1..Len(body)})
    IN [i \in 1..Len(body) |->
          [c \in {Name(j) : j \in 1..Len(header)} |->
              ParseCell(Type(At(c)), body[i][At(c)])]]

\* a file of zero bytes: read_csv raises EmptyDataError
EmptyFile == <<>>

(***************************************************************************)
(* dashboard.py: load_data, behind st.cache_data                           *)
(***************************************************************************)
\* mutant: the os.path.exists test left out, the file generated and written anew
load_data_body_always_writes(on_disk, draws) ==
    {[raised |-> FALSE, df |-> to_datetime(t), file |-> Some(WriteCsv(t, FALSE)),
      path |-> "generated", generated |-> t] :
        t \in generate_sample_horse_data(draws)}

\* lines 51-62: the body of load_data; what it returns and leaves on disk
load_data_body(on_disk, draws) ==
    IF on_disk = NoFile
    THEN {[raised |-> FALSE, df |-> to_datetime(t), file |-> Some(to_csv(t)),
           path |-> "generated", generated |-> t] :
             t \in generate_sample_horse_data(draws)}
    ELSE IF Value(on_disk) = EmptyFile
         THEN {[raised |-> TRUE, df |-> <<>>, file |-> on_disk, path |-> "raised",
                generated |-> <<>>]}
         ELSE {[raised |-> FALSE, df |-> to_datetime(read_csv(Value(on_disk))),
                file |-> on_disk, path |-> "read", generated |-> <<>>]}

\* line 48: st.cache_data returns the memoised table without running the body
load_data(on_disk, memo, draws) ==
    IF memo # NoCache
    THEN {[raised |-> FALSE, df |-> Value(memo), file |-> on_disk, path |-> "cached",
           generated |-> <<>>]}
    ELSE load_data_body(on_disk, draws)

(***************************************************************************)
(* dashboard.py: calculate_horse_stats                                     *)
(***************************************************************************)
RECURSIVE SumOf(_, _)
\* Series.sum() of column c
SumOf(table, c) ==
    IF Len(table) = 0 THEN 0 ELSE table[1][c] + SumOf(Tail(table), c)

\* round(num / den) to the nearest integer, ties to even, as Python's round
RoundHalfEven(num, den) ==
    LET q == num \div den
        r == num % den
    IN IF 2 * r < den THEN q
       ELSE IF 2 * r > den THEN q + 1
            ELSE IF q % 2 = 0 THEN q ELSE q + 1

\* mutant: == k in place of <= k
CountExactly(horse_data, k) ==
    Len(SelectSeq(horse_data, LAMBDA r : r.finish_position = k))

\* len(horse_data[horse_data["finish_position"] <= k])
CountWithin(horse_data, k) ==
    Len(SelectSeq(horse_data, LAMBDA r : r.finish_position <= k))

\* lines 69-91: the statistics of the selected rows horse_data
HorseStats(horse_data) ==
    LET n == Len(horse_data)
        first == Len(SelectSeq(horse_data, LAMBDA r : r.finish_position = 1))
    IN IF n = 0 THEN None
       ELSE Some(
            [starts |-> n,
             wins |-> first,
             top2 |-> CountWithin(horse_data, 2),
             top3 |-> CountWithin(horse_data, 3),
             mean_finish |-> RoundHalfEven(SumOf(horse_data, "finish_position") * 100, n),
             win_rate |-> RoundHalfEven(first * 1000, n),
             top2_rate |-> RoundHalfEven(CountWithin(horse_data, 2) * 1000, n),
             top3_rate |-> RoundHalfEven(CountWithin(horse_data, 3) * 1000, n),
             total_prize |-> SumOf(horse_data, "prize"),
             mean_odds |-> RoundHalfEven(SumOf(horse_data, "odds"), n)])

\* mutant: the statistics taken over the whole table, the horse filter left out
calculate_stats_of_all(table, name) == HorseStats(table)

\* lines 65-91
calculate_horse_stats(table, name) ==
    HorseStats(SelectSeq(table, LAMBDA r : r.horse_name = name))


(***************************************************************************)
(* dashboard.py: main, one render pass                                     *)
(***************************************************************************)
\* line 112: sorted(df["horse_name"].unique()), the options of the horse multiselect
HorsesOf(table) == {table[i].horse_name : i \in 1..Len(table)}

\* line 128: sorted(df["venue"].unique()), the options of the venue multiselect
VenuesOf(table) == {table[i].venue : i \in 1..Len(table)}

\* lines 120-122: df["race_date"].min().date() and .max().date()
MinDate(table) ==
    CHOOSE d \in {table[i].race_date : i \in 1..Len(table)} :
        \A i \in 1..Len(table) : d <= table[i].race_date

MaxDate(table) ==
    CHOOSE d \in {table[i].race_date : i \in 1..Len(table)} :
        \A i \in 1..Len(table) : d >= table[i].race_date

\* lines 118-123: the values st.date_input can return: one date while a range is
\* being picked, else (start, end), the dates sampled in [min_value, max_value]
DateRanges(table) ==
    LET days == {d \in {MinDate(table), MinDate(table) + 1, MaxDate(table)} :
                    d <= MaxDate(table)}
    IN {<<a>> : a \in days} \cup {dates \in days \X days : dates[1] <= dates[2]}

\* mutant: the end of the date range taken as exclusive
FilterEndExclusive(table, horses, dates, venues) ==
    IF Len(dates) = 2
    THEN SelectSeq(table, LAMBDA r : /\ r.horse_name \in horses
                                     /\ r.race_date >= dates[1]
                                     /\ r.race_date < dates[2]
                                     /\ r.venue \in venues)
    ELSE SelectSeq(table, LAMBDA r : r.horse_name \in horses /\ r.venue \in venues)

\* mutant: the first matching row lost to an off-by-one slice
FilterSkipFirst(table, horses, dates, venues) ==
    LET kept == SelectSeq(table, LAMBDA r : /\ r.horse_name \in horses
                                            /\ r.venue \in venues
                                            /\ (Len(dates) = 2 =>
                                                  /\ r.race_date >= dates[1]
                                                  /\ r.race_date <= dates[2]))
    IN IF Len(kept) > 0 THEN Tail(kept) ELSE kept

\* lines 133-143: the boolean mask and df[mask]
Filter(table, horses, dates, venues) ==
    IF Len(dates) = 2
    THEN SelectSeq(table, LAMBDA r : /\ r.horse_name \in horses
                                     /\ r.race_date >= dates[1]
                                     /\ r.race_date <= dates[2]
                                     /\ r.venue \in venues)
    ELSE SelectSeq(table, LAMBDA r : r.horse_name \in horses /\ r.venue \in venues)

\* mutant: the empty-state return of lines 145-147 left out
RenderPassNoEmptyState(table, horses, dates, venues) ==
    LET f == Filter(table, horses, dates, venues)
    IN [outcome |-> "rendered", filtered_df |-> f,
        stats_calls |-> {[horse |-> h, stats |-> calculate_horse_stats(f, h)] :
                           h \in horses}]

\* lines 132-195: the pass after the widgets: filter, the empty-state return, and
\* the calculate_horse_stats calls of the summary and comparison tabs
RenderPass(table, horses, dates, venues) ==
    LET f == Filter(table, horses, dates, venues)
    IN IF Len(f) = 0
       THEN [outcome |-> "warning", filtered_df |-> f, stats_calls |-> {}]
       ELSE [outcome |-> "rendered", filtered_df |-> f,
             stats_calls |-> {[horse |-> h, stats |-> calculate_horse_stats(f, h)] :
                                h \in horses}]

(***************************************************************************)
(* State machine                                                           *)
(***************************************************************************)
\* a process that has run nothing yet; the backing file absent, or present and empty
Init ==
    /\ all_data = <<>>
    /\ file \in {NoFile, Some(EmptyFile)}
    /\ cache = NoCache
    /\ load_path = "none"
    /\ op = "init"
    /\ df = <<>>
    /\ selected_horses = {}
    /\ date_range = <<>>
    /\ race_courses = {}
    /\ filtered_df = <<>>
    /\ outcome = "start"
    /\ stats_calls = {}
    /\ horse_name = None
    /\ stats = None

main_locals == <<df, selected_horses, date_range, race_courses, filtered_df,
                 outcome, stats_calls>>

\* sample_data.py lines 7-112: one call of generate_sample_horse_data
Generate ==
    /\ op = "init"
    /\ all_data' \in generate_sample_horse_data(GenDraws)
    /\ op' = "generate_sample_horse_data"
    /\ UNCHANGED <<file, cache, load_path, main_locals, horse_name, stats>>

\* dashboard.py lines 48-62: one call of load_data
LoadData(draws) ==
    /\ \E r \in load_data(file, cache, draws) :
          /\ file' = r.file
          /\ cache' = IF r.raised THEN cache ELSE Some(r.df)
          /\ load_path' = r.path
          /\ all_data' = IF r.path = "generated" THEN r.generated ELSE all_data
    /\ op' = "load_data"
    /\ UNCHANGED <<main_locals, horse_name, stats>>

\* sample_data.py lines 115-120: python sample_data.py
SaveSampleData(draws) ==
    /\ \E t \in generate_sample_horse_data(draws) :
          /\ all_data' = t
          /\ file' = Some(to_csv(t))
    /\ op' = "save_sample_data"
    /\ UNCHANGED <<cache, load_path, main_locals, horse_name, stats>>

\* the server process ends and a new one starts: the memo is gone, the file stays
Restart ==
    /\ cache # NoCache
    /\ cache' = NoCache
    /\ op' = "restart"
    /\ df' = <<>> /\ selected_horses' = {} /\ date_range' = <<>> /\ race_courses' = {}
    /\ filtered_df' = <<>> /\ outcome' = "start" /\ stats_calls' = {}
    /\ UNCHANGED <<all_data, file, load_path, horse_name, stats>>

\* dashboard.py lines 94-195: one run of main, from load_data to the tabs
MainPass ==
    /\ outcome = "start"
    /\ \E r \in load_data(file, cache, MainDraws) :
          /\ file' = r.file
          /\ all_data' = IF r.path = "generated" THEN r.generated ELSE all_data
          /\ \/ /\ r.raised
                /\ outcome' = "error"
                /\ UNCHANGED <<cache, df, selected_horses, date_range, race_courses,
                               filtered_df, stats_calls>>
             \/ /\ ~r.raised
                /\ cache' = Some(r.df)
                /\ df' = r.df
                /\ \E horses \in SUBSET HorsesOf(r.df), dates \in DateRanges(r.df),
                      venues \in SUBSET VenuesOf(r.df) :
                      LET pass == RenderPass(r.df, horses, dates, venues)
                      IN /\ selected_horses' = horses
                         /\ date_range' = dates
                         /\ race_courses' = venues
                         /\ filtered_df' = pass.filtered_df
                         /\ outcome' = pass.outcome
                         /\ stats_calls' = pass.stats_calls
    /\ op' = "main"
    /\ UNCHANGED <<load_path, horse_name, stats>>

\* a widget changes: streamlit runs the script again in the same process
Rerun ==
    /\ outcome # "start"
    /\ op' = "rerun"
    /\ df' = <<>> /\ selected_horses' = {} /\ date_range' = <<>> /\ race_courses' = {}
    /\ filtered_df' = <<>> /\ outcome' = "start" /\ stats_calls' = {}
    /\ UNCHANGED <<all_data, file, cache, load_path, horse_name, stats>>

\* the tables calculate_horse_stats is applied to on its own: up to MaxRows rows
StatsHorses == {<<horse_names[k]>> : k \in 1..Len(horse_names)}

StatsRows ==
    [horse_name : StatsHorses, finish_position : {1, 2, 3, 5}, prize : {0, 500},
     odds : {25}]

InitStats ==
    /\ all_data = <<>>
    /\ file = NoFile
    /\ cache = NoCache
    /\ load_path = "none"
    /\ op = "init"
    /\ \E n \in 0..MaxRows : df \in [1..n -> StatsRows]
    /\ selected_horses = {}
    /\ date_range = <<>>
    /\ race_courses = {}
    /\ filtered_df = <<>>
    /\ outcome = "start"
    /\ stats_calls = {}
    /\ horse_name = None
    /\ stats = None

\* dashboard.py lines 65-91: one call of calculate_horse_stats
CalcStats ==
    /\ \E name \in StatsHorses :
          /\ horse_name' = Some(name)
          /\ stats' = calculate_horse_stats(df, name)
    /\ op' = "calculate_horse_stats"
    /\ UNCHANGED <<all_data, file, cache, load_path, main_locals>>

LoadDataIO == LoadData(IODraws)

SaveSampleDataIO == SaveSampleData(IODraws)

LoadDataRoundTrip == LoadData(RoundTripDraws)

\* the dashboard in one server process: render passes and reruns
Next == MainPass \/ Rerun

Spec == Init /\ [][Next]_vars

\* a first start: the backing file is absent
InitNoFile == Init /\ file = NoFile

\* the generator alone
SpecGen == InitNoFile /\ [][Generate]_vars

\* calculate_horse_stats alone
SpecStats == InitStats /\ [][CalcStats]_vars

\* the backing file: load_data, the save_sample_data script, restarts
NextIO == LoadDataIO \/ SaveSampleDataIO \/ Restart

SpecIO == InitNoFile /\ [][NextIO]_vars

\* load_data on a cold start and after a restart
NextRoundTrip == LoadDataRoundTrip \/ Restart

SpecRoundTrip == Init /\ [][NextRoundTrip]_vars


(***************************************************************************)
(* Properties                                                              *)
(***************************************************************************)
Rows(table) == {table[i] : i \in 1..Len(table)}

Generated == op = "generate_sample_horse_data"

\* C1: every generated record has 1 <= finish_position <= field_size <= 18,
\* whichever strength tier its finish position was drawn from.
C1_PositionWithinField ==
    \A r \in Rows(all_data) :
        /\ 1 <= r.finish_position
        /\ r.finish_position <= r.field_size
        /\ r.field_size <= 18

\* a generated table with a last place of the weak tier in a full field, an
\* eighth place of the middle tier in a field of eight, and a win
C1_Witness ==
    /\ Generated
    /\ \E r \in Rows(all_data) : r.finish_position = 18 /\ r.field_size = 18
    /\ \E r \in Rows(all_data) : r.finish_position = 8 /\ r.field_size = 8
    /\ \E r \in Rows(all_data) : r.finish_position = 1

\* C2: every generated record with finish_position > 5 has prize 0; a non-zero
\* prize occurs only with finish_position <= 5.
C2_PrizeOnlyInTopFive ==
    \A r \in Rows(all_data) :
        /\ r.finish_position > 5 => r.prize = 0
        /\ r.prize # 0 => r.finish_position <= 5

\* a generated table with a paid fifth place and an unpaid place behind it
C2_Witness ==
    /\ Generated
    /\ \E r \in Rows(all_data) : r.finish_position = 5 /\ r.prize > 0
    /\ \E r \in Rows(all_data) : r.finish_position > 5 /\ r.prize = 0

\* the finish positions of one horse in a table
PositionsOf(table, name) ==
    {r.finish_position : r \in {q \in Rows(table) : q.horse_name = name}}

\* C10: within one call of generate_sample_horse_data all the finish positions
\* of a horse come from one strength tier: all in 1..5, or all in 1..8, or all
\* in 5..18.
C10_OneTierPerHorse ==
    \A name \in {r.horse_name : r \in Rows(all_data)} :
        \/ PositionsOf(all_data, name) \subseteq 1..5
        \/ PositionsOf(all_data, name) \subseteq 1..8
        \/ PositionsOf(all_data, name) \subseteq 5..18

\* the rows of the table calculate_horse_stats was given that are the horse's
RowsOfHorse == {i \in 1..Len(df) : df[i].horse_name = Value(horse_name)}

RECURSIVE PrizeSum(_)
PrizeSum(idx) ==
    IF idx = {} THEN 0
    ELSE LET i == CHOOSE j \in idx : TRUE IN df[i].prize + PrizeSum(idx \ {i})

Within(idx, k) == Cardinality({i \in idx : df[i].finish_position <= k})

\* C4: calculate_horse_stats returns None exactly when the table has no row of
\* the horse; otherwise starts, wins, top2, top3 and total_prize are the count,
\* the counts of finishes = 1, <= 2, <= 3, and the prize sum of exactly that
\* horse's rows.
C4_StatsOfExactlyThatHorse ==
    horse_name # None =>
        /\ stats = None <=> RowsOfHorse = {}
        /\ stats # None =>
              /\ Value(stats).starts = Cardinality(RowsOfHorse)
              /\ Value(stats).wins =
                    Cardinality({i \in RowsOfHorse : df[i].finish_position = 1})
              /\ Value(stats).top2 = Within(RowsOfHorse, 2)
              /\ Value(stats).top3 = Within(RowsOfHorse, 3)
              /\ Value(stats).total_prize = PrizeSum(RowsOfHorse)

\* the scenario of the claim: finishes 1, 3, 5 with prizes 500, 0, 0
C4_Witness ==
    /\ horse_name = Some(<<horse_names[1]>>)
    /\ Len(df) = 3
    /\ \A i \in 1..3 : df[i].horse_name = <<horse_names[1]>>
    /\ <<df[1].finish_position, df[2].finish_position, df[3].finish_position>> = <<1, 3, 5>>
    /\ <<df[1].prize, df[2].prize, df[3].prize>> = <<500, 0, 0>>
    /\ stats # None
    /\ Value(stats).starts = 3 /\ Value(stats).wins = 1 /\ Value(stats).top3 = 2
    /\ Value(stats).mean_finish = 300 /\ Value(stats).win_rate = 333
    /\ Value(stats).top3_rate = 667 /\ Value(stats).total_prize = 500

\* C5: a result with starts = N has wins <= top2 <= top3 <= N and
\* 0 <= win_rate <= top2_rate <= top3_rate <= 100 (rates in tenths of a percent).
C5_CountsAndRatesOrdered ==
    (horse_name # None /\ stats # None) =>
        LET st == Value(stats)
        IN /\ st.wins <= st.top2 /\ st.top2 <= st.top3 /\ st.top3 <= st.starts
           /\ 0 <= st.win_rate /\ st.win_rate <= st.top2_rate
           /\ st.top2_rate <= st.top3_rate /\ st.top3_rate <= 1000

\* a result over a table that also holds another horse: a win and a third
\* in two starts, so the win rate is below the top-3 rate
C5_Witness ==
    /\ horse_name # None /\ stats # None
    /\ Value(stats).wins = 1 /\ Value(stats).top2 = 1 /\ Value(stats).top3 = 2
    /\ Value(stats).starts = 2
    /\ Value(stats).win_rate = 500 /\ Value(stats).top3_rate = 1000
    /\ \E i \in 1..Len(df) : df[i].horse_name # Value(horse_name)

\* a render pass of main got past load_data
Filtered == outcome \in {"warning", "rendered"}

\* the filter predicate of the claim, on the widget values of the pass
Retained(r) ==
    /\ r.horse_name \in selected_horses
    /\ r.venue \in race_courses
    /\ Len(date_range) = 2 =>
          (date_range[1] <= r.race_date /\ r.race_date <= date_range[2])

Kept == {i \in 1..Len(df) : Retained(df[i])}

\* C3: the filter step retains a row iff its horse is selected, its venue is
\* selected and, when the date range has both bounds, its date lies in
\* [start, end]; with fewer than two bounds the date condition is dropped. No
\* other row is retained and the retained rows are unaltered, in table order.
C3_FilterRetainsExactly ==
    Filtered =>
        /\ Len(filtered_df) = Cardinality(Kept)
        /\ \A i \in Kept : filtered_df[Cardinality({j \in Kept : j <= i})] = df[i]

\* a pass with both bounds that drops a row for its date alone and keeps another
C3_Witness ==
    /\ outcome = "rendered"
    /\ Len(date_range) = 2
    /\ Len(filtered_df) >= 1
    /\ \E i \in 1..Len(df) :
          /\ df[i].horse_name \in selected_horses
          /\ df[i].venue \in race_courses
          /\ df[i].race_date > date_range[2]

\* C6: the filter step is idempotent: applied with the same widget values to
\* its own result it returns the same rows.
C6_FilterIdempotent ==
    Filtered =>
        Filter(filtered_df, selected_horses, date_range, race_courses) = filtered_df

\* a pass that kept some rows and dropped others
C6_Witness ==
    /\ outcome = "rendered"
    /\ Len(filtered_df) >= 2
    /\ Len(filtered_df) < Len(df)

\* C7: the table load_data returns when it reads the file written from a
\* generated table equals that generated table, row for row and field for
\* field, the dates compared as calendar dates.
C7_RoundTrip ==
    (load_path = "read" /\ cache # NoCache) =>
        /\ Len(Value(cache)) = Len(all_data)
        /\ Value(cache) = to_datetime(all_data)

\* a restart after the cold start, the file read back: rows of different dates
\* and odds
C7_Witness ==
    /\ op = "load_data" /\ load_path = "read" /\ cache # NoCache
    /\ \E r, q \in Rows(Value(cache)) : r.race_date # q.race_date /\ r.odds # q.odds

\* C8: a pass in which no row matches ends in the warning without a call of
\* calculate_horse_stats; statistics are computed only when the filtered table
\* is non-empty; a load error is reported only when load_data raised.
C8_EmptyStateWithoutStats ==
    /\ outcome = "error" => file = Some(EmptyFile)
    /\ Filtered =>
          /\ Kept = {} => (outcome = "warning" /\ stats_calls = {})
          /\ Kept # {} => outcome = "rendered"
          /\ stats_calls # {} => Len(filtered_df) > 0

\* the scenario of the claim: horses and venues selected, a date range with no
\* record in it
C8_Witness ==
    /\ outcome = "warning"
    /\ Len(date_range) = 2
    /\ \E i \in 1..Len(df) :
          df[i].horse_name \in selected_horses /\ df[i].venue \in race_courses
    /\ stats_calls = {}

\* C9 as claimed: once the backing file exists its contents never change.
C9_NeverRewritten == [][file # NoFile => file' = file]_vars

\* C9 as amended: load_data writes the file only when it is absent; an existing
\* file is changed by save_sample_data alone.
C9_OnlySaveRewrites ==
    [][file' # file =>
          \/ op' = "save_sample_data"
          \/ (file = NoFile /\ op' = "load_data" /\ load_path' = "generated")]_vars

\* load_data ran on a file that save_sample_data wrote, and read it
C9_Witness ==
    /\ op = "load_data" /\ load_path = "read"
    /\ file = Some(WriteCsv(all_data, FALSE))
    /\ cache = Some(to_datetime(all_data))


====
